---- MODULE Spec2Model ----
(***************************************************************************)
(* Quiz Session Engine of PlayQzv3: the generation hook                    *)
(* (useQuizGeneration), the session store (useQuizStore) and the TakeQuiz  *)
(* page's timer and submit button, over the hosted backend's tables        *)
(* quiz_attempts / quiz_responses / questions and its two RPCs.            *)
(***************************************************************************)
EXTENDS Integers, Sequences, FiniteSets, TLC

(* ------------------------------ bounds --------------------------------- *)
MaxNumQuestions == 2    \* config.numQuestions ranges over 0..MaxNumQuestions
MaxTimeLimit == 2       \* config.timeLimit ranges over {0, MaxTimeLimit}
MaxAttempts == 2        \* rows the quiz_attempts table may hold
MaxSessionAttempts == 1 \* quizzes generated in the session model (Spec)
MaxAnswers == 2         \* submitAnswer calls (one fresh response id each)
MaxSubmits == 2         \* submitQuiz calls
MaxClock == 3           \* seconds that may pass without a timer tick
MaxShuffle == 3         \* candidates in an array whose shuffle is enumerated

(* --------------------------- question bank ----------------------------- *)
\* The questions table (read-only for the engine).
QuestionIds == {"q1", "q2", "q3", "q4"}

Bank ==
    ( "q1" :> [category |-> "science", difficulty |-> "easy", is_active |-> TRUE,
               correct_answer |-> "A", points |-> 10]
   @@ "q2" :> [category |-> "science", difficulty |-> "hard", is_active |-> TRUE,
               correct_answer |-> "B", points |-> 20]
   @@ "q3" :> [category |-> "science", difficulty |-> "easy", is_active |-> FALSE,
               correct_answer |-> "A", points |-> 10]
   @@ "q4" :> [category |-> "history", difficulty |-> "easy", is_active |-> TRUE,
               correct_answer |-> "B", points |-> 10] )

Answers == {"A", "B"}

\* Every config the generation calls are tried on (valid, insufficient, invalid).
Configs ==
    [numQuestions : 0..MaxNumQuestions,
     difficulty   : {"easy", "mixed"},
     categories   : {{}, {"science"}},
     timeLimit    : {0, MaxTimeLimit}]

\* The configs the session model starts quizzes from: one question without a time
\* limit, and two questions with one.
SessionConfigs ==
    { [numQuestions |-> 1, difficulty |-> "easy",  categories |-> {"science"}, timeLimit |-> 0],
      [numQuestions |-> 2, difficulty |-> "mixed", categories |-> {"science"}, timeLimit |-> MaxTimeLimit] }

(* ------------------------------ helpers -------------------------------- *)
Min(a, b) == IF a <= b THEN a ELSE b
Max(a, b) == IF a >= b THEN a ELSE b

Range(s) == {s[i] : i \in DOMAIN s}

\* All orderings of a finite set, as sequences without repetition.
Perms(S) ==
    {s \in [1..Cardinality(S) -> S] : \A i, j \in DOMAIN s : i # j => s[i] # s[j]}

\* A slice that keeps the whole array.
SliceWhole(s, n) == s

\* Array.prototype.slice(0, n) for n >= 0.
Slice(s, n) == SubSeq(s, 1, Min(n, Len(s)))

\* Math.ceil(n * 1.5) for an integer n >= 0.
CeilOneAndHalf(n) == (3 * n + 1) \div 2

\* The hook's over-fetch limit.
FetchLimit(cfg) == Max(100, CeilOneAndHalf(cfg.numQuestions))

\* The query without .eq('is_active', true).
MatchesFilterAnyActivity(q, cfg) ==
    /\ Bank[q].category \in cfg.categories
    /\ (cfg.difficulty # "mixed" => Bank[q].difficulty = cfg.difficulty)

\* The hook's query filter: .eq('is_active', true).in('category', ...) and,
\* unless the difficulty is 'mixed', .eq('difficulty', ...).
MatchesFilter(q, cfg) ==
    /\ Bank[q].is_active
    /\ Bank[q].category \in cfg.categories
    /\ (cfg.difficulty # "mixed" => Bank[q].difficulty = cfg.difficulty)

Matching(cfg) == {q \in QuestionIds : MatchesFilter(q, cfg)}

\* The rows query.limit(limit) may return: any min(limit, |matching|) of them.
QueryResults(cfg) ==
    {D \in SUBSET Matching(cfg) :
        Cardinality(D) = Min(FetchLimit(cfg), Cardinality(Matching(cfg)))}

\* [...data].sort(() => Math.random() - 0.5).slice(0, n).map(q => q.id):
\* the sort returns some ordering of the rows, the slice keeps the first n.
Selections(D, n) == {Slice(p, n) : p \in Perms(D)}

(* ------------- Array.prototype.sort(() => Math.random() - 0.5) ------------ *)
\* The comparator ignores its arguments: each call returns a negative number with
\* probability 1/2. A run of the sort is fixed by the outcomes of its comparator
\* calls, coins[k] = TRUE when the k-th call returned a negative number. No sort
\* of n elements modelled here makes more than 2n calls; every string of 2n
\* outcomes is equally likely.
CoinStrings(n) == [1..(2 * n) -> BOOLEAN]

Reverse(s) == [i \in 1..Len(s) |-> s[Len(s) + 1 - i]]

\* s with x put at position pos (1-based), the rest shifted right.
InsertAt(s, pos, x) == SubSeq(s, 1, pos - 1) \o <<x>> \o SubSeq(s, pos, Len(s))

\* Insertion sort (engines that sort short arrays by straight insertion): the
\* element x moves left past sorted[j] while comparefn(sorted[j], x) > 0.
RECURSIVE InsertBack(_, _, _, _, _)
InsertBack(sorted, x, j, coins, k) ==
    IF j = 0 THEN [arr |-> <<x>> \o sorted, k |-> k]
    ELSE IF ~coins[k] THEN InsertBack(sorted, x, j - 1, coins, k + 1)
    ELSE [arr |-> InsertAt(sorted, j + 1, x), k |-> k + 1]

RECURSIVE InsertionSortFrom(_, _, _, _)
InsertionSortFrom(arr, i, coins, k) ==
    IF i > Len(arr) THEN arr
    ELSE LET r == InsertBack(SubSeq(arr, 1, i - 1), arr[i], i - 1, coins, k)
         IN InsertionSortFrom(r.arr \o SubSeq(arr, i + 1, Len(arr)), i + 1, coins, r.k)

\* TimSort on an array shorter than its minimum run length (one run, no merge):
\* count the initial run (descending when the first call is negative, and then
\* reversed), and binary-insert every element after it.
RECURSIVE RunLength(_, _, _, _)
RunLength(arr, coins, desc, idx) ==
    IF idx > Len(arr) THEN Len(arr)
    ELSE IF coins[idx - 1] = desc THEN RunLength(arr, coins, desc, idx + 1)
    ELSE idx - 1

\* The binary search of the insertion point in [left, right) (0-based): a negative
\* comparefn(pivot, a[mid]) goes left, anything else right.
RECURSIVE BinarySearch(_, _, _, _)
BinarySearch(left, right, coins, k) ==
    IF left >= right THEN [pos |-> left, k |-> k]
    ELSE LET mid == left + ((right - left) \div 2)
         IN IF coins[k] THEN BinarySearch(left, mid, coins, k + 1)
            ELSE BinarySearch(mid + 1, right, coins, k + 1)

RECURSIVE BinaryInsertionFrom(_, _, _, _)
BinaryInsertionFrom(arr, start, coins, k) ==
    IF start >= Len(arr) THEN arr
    ELSE LET r == BinarySearch(0, start, coins, k)
         IN BinaryInsertionFrom(
                InsertAt(SubSeq(arr, 1, start), r.pos + 1, arr[start + 1])
                    \o SubSeq(arr, start + 2, Len(arr)),
                start + 1, coins, r.k)

TimSortShort(arr, coins) ==
    IF Len(arr) < 2 THEN arr
    ELSE LET desc == coins[1]
             run == RunLength(arr, coins, desc, 3)
             used == IF run = Len(arr) THEN Len(arr) - 1 ELSE run
             made == IF desc THEN Reverse(SubSeq(arr, 1, run)) \o SubSeq(arr, run + 1, Len(arr))
                     ELSE arr
         IN BinaryInsertionFrom(made, run, coins, used + 1)

\* The sort is the engine's: either algorithm may run the page.
Engines == {"timsort", "insertion"}

ArraySort(engine, arr, coins) ==
    IF engine = "timsort" THEN TimSortShort(arr, coins)
    ELSE InsertionSortFrom(arr, 2, coins, 1)

\* [...questionsData].sort(() => Math.random() - 0.5).slice(0, n).map(q => q.id)
\* for one string of comparator outcomes.
ShuffleSlice(engine, arr, coins, n) == Slice(ArraySort(engine, arr, coins), n)

(* ------------------------------- errors -------------------------------- *)
InvalidNumQuestions == [kind |-> "InvalidConfig", message |-> "Number of questions must be positive"]
InvalidCategories == [kind |-> "InvalidConfig", message |-> "At least one category must be selected"]
\* The error with the count of rows found lost (reported as 0).
NotEnoughQuestionsUncounted(available, required) ==
    [kind |-> "InsufficientQuestions", available |-> 0, required |-> required]

\* `Not enough questions available. Found ${available}, required ${numQuestions}`
NotEnoughQuestions(available, required) ==
    [kind |-> "InsufficientQuestions", available |-> available, required |-> required]
NotAuthenticated == [kind |-> "NotAuthenticated"]
BackendError == [kind |-> "PersistenceFailure"]

(* ------------------------------- state --------------------------------- *)
VARIABLES
    attempts,              \* quiz_attempts table: sequence of rows, row i has id i
    dbResponses,           \* quiz_responses table: sequence of rows
    currentAttempt,        \* store: <<>> (null) or <<attempt row as loaded>>
    questions,             \* store: the session's question list (ids, in order)
    responses,             \* store: Map<questionId, QuizResponse> in insertion order
    currentQuestionIndex,  \* store: 0-based index of the displayed question
    timeRemaining,         \* store: seconds left on the UI countdown
    isLoading,             \* store: isLoading flag
    hookLoading,           \* useQuizGeneration: isLoading
    hookError,             \* useQuizGeneration: error, <<>> (null) or <<error>>
    loader,                \* the generateQuiz/startAttempt call in flight, if any
    submits,               \* the submitQuiz calls in flight (two slots)
    nextId,                \* number of response ids crypto.randomUUID() has issued
    submitCalls,           \* number of submitQuiz calls made
    calls,                 \* history: the submitAnswer calls recorded on the session
                           \* ledger since it was last emptied, oldest first
    now,                   \* the clock: seconds since the model started
    shuffled               \* the last shuffle-and-slice of a candidate array, if any

storeVars == <<currentAttempt, questions, responses, currentQuestionIndex, timeRemaining, isLoading>>
hookVars == <<hookLoading, hookError>>
dbVars == <<attempts, dbResponses>>
vars == <<attempts, dbResponses, currentAttempt, questions, responses, currentQuestionIndex,
          timeRemaining, isLoading, hookLoading, hookError, loader, submits, nextId,
          submitCalls, calls, now, shuffled>>

NoConfig == [numQuestions |-> 0, difficulty |-> "mixed", categories |-> {}, timeLimit |-> 0]

\* No generateQuiz/startAttempt call in flight.
IdleLoader == [kind |-> "none", pc |-> "idle", config |-> NoConfig, ids |-> <<>>, row |-> <<>>, attemptId |-> 0]

\* A free submitQuiz slot.
IdleSubmit == [pc |-> "idle", attemptId |-> 0, responsesArray |-> <<>>, overlapped |-> FALSE]

SubmitSlots == {1, 2}

InFlight(s) == submits[s].pc # "idle"

\* The row quiz_attempts.insert(...).select().single() stores and returns.
NewAttemptRow(id, cfg, ids) ==
    [id |-> id, config |-> cfg, question_ids |-> ids, total_questions |-> cfg.numQuestions,
     status |-> "in_progress", started_at |-> now, correct_answers |-> 0,
     time_spent_seconds |-> 0, finalizations |-> 0]

Init ==
    /\ attempts = <<>>
    /\ dbResponses = <<>>
    /\ currentAttempt = <<>>
    /\ questions = <<>>
    /\ responses = <<>>
    /\ currentQuestionIndex = 0
    /\ timeRemaining = 0
    /\ isLoading = FALSE
    /\ hookLoading = FALSE
    /\ hookError = <<>>
    /\ loader = IdleLoader
    /\ submits = [s \in SubmitSlots |-> IdleSubmit]
    /\ nextId = 0
    /\ submitCalls = 0
    /\ calls = <<>>
    /\ now = 0
    /\ shuffled = <<>>

(* ------------------- useQuizStore.setQuiz / resetQuiz ------------------ *)
\* attempt.config.timeLimit || 0
TimeLimitOrZero(cfg) == IF cfg.timeLimit = 0 THEN 0 ELSE cfg.timeLimit

\* A setQuiz that keeps the responses recorded so far.
SetQuizKeepingLedger(attempt, qs) ==
    /\ currentAttempt' = <<attempt>>
    /\ questions' = qs
    /\ UNCHANGED <<responses, calls>>
    /\ currentQuestionIndex' = 0
    /\ timeRemaining' = TimeLimitOrZero(attempt.config)
    /\ isLoading' = FALSE

\* The state setQuiz(attempt, questions) sets.
SetQuiz(attempt, qs) ==
    /\ currentAttempt' = <<attempt>>
    /\ questions' = qs
    /\ responses' = <<>>
    /\ calls' = <<>>
    /\ currentQuestionIndex' = 0
    /\ timeRemaining' = TimeLimitOrZero(attempt.config)
    /\ isLoading' = FALSE

ResetQuiz ==
    /\ currentAttempt' = <<>>
    /\ questions' = <<>>
    /\ responses' = <<>>
    /\ calls' = <<>>
    /\ currentQuestionIndex' = 0
    /\ timeRemaining' = 0
    /\ UNCHANGED <<isLoading, dbVars, hookVars, loader, submits, nextId, submitCalls, now, shuffled>>

(* -------------------- useQuizGeneration.generateQuiz ------------------- *)
\* catch: setError(message), toast, rethrow; finally: setIsLoading(false).
HookFail(e) ==
    /\ hookError' = <<e>>
    /\ hookLoading' = FALSE
    /\ loader' = IdleLoader
    /\ UNCHANGED <<dbVars, storeVars, submits, nextId, calls, submitCalls, now, shuffled>>

\* Step 1 of the hook: the config check that runs before the first await.
ValidateConfig(cfg) ==
    IF cfg.numQuestions <= 0 THEN <<InvalidNumQuestions>>
    ELSE IF cfg.categories = {} THEN <<InvalidCategories>>
    ELSE <<>>

\* The call, up to the first await (the questions query).
HookGenerateQuiz(cfg) ==
    /\ loader.kind = "none"
    /\ IF ValidateConfig(cfg) # <<>>
       THEN HookFail(ValidateConfig(cfg)[1])
       ELSE /\ hookLoading' = TRUE
            /\ hookError' = <<>>
            /\ loader' = [IdleLoader EXCEPT !.kind = "hook", !.pc = "query", !.config = cfg]
            /\ UNCHANGED <<dbVars, storeVars, submits, nextId, calls, submitCalls, now, shuffled>>

\* The query returns: an error, too few rows, or enough rows to shuffle and slice;
\* then the hook awaits supabase.auth.getUser().
HookQueryReturn ==
    /\ loader.kind = "hook" /\ loader.pc = "query"
    /\ \/ HookFail(BackendError)
       \/ \E D \in QueryResults(loader.config) :
            IF Cardinality(D) < loader.config.numQuestions
            THEN HookFail(NotEnoughQuestions(Cardinality(D), loader.config.numQuestions))
            ELSE \E sel \in Selections(D, loader.config.numQuestions) :
                    /\ loader' = [loader EXCEPT !.pc = "auth", !.ids = sel]
                    /\ UNCHANGED <<dbVars, storeVars, hookVars, submits, nextId, calls, submitCalls, now, shuffled>>

\* getUser() returns: no user, or a user and the attempt insert is issued.
HookAuthReturn ==
    /\ loader.kind = "hook" /\ loader.pc = "auth"
    /\ \/ HookFail(NotAuthenticated)
       \/ /\ loader' = [loader EXCEPT !.pc = "insert"]
          /\ UNCHANGED <<dbVars, storeVars, hookVars, submits, nextId, calls, submitCalls, now, shuffled>>

\* The insert returns: an error, or the new row, which setQuiz loads.
HookInsertReturn ==
    /\ loader.kind = "hook" /\ loader.pc = "insert"
    /\ \/ HookFail(BackendError)
       \/ /\ Len(attempts) < MaxAttempts
          /\ LET row == NewAttemptRow(Len(attempts) + 1, loader.config, loader.ids) IN
                /\ attempts' = Append(attempts, row)
                /\ SetQuiz(row, loader.ids)
          /\ hookLoading' = FALSE
          /\ loader' = IdleLoader
          /\ UNCHANGED <<dbResponses, hookError, submits, nextId, submitCalls, now, shuffled>>

(* ---------------------- useQuizStore.generateQuiz ----------------------- *)
\* A catch that rethrows without touching isLoading.
StoreLoadFailStuck(e) ==
    /\ loader' = IdleLoader
    /\ UNCHANGED <<dbVars, storeVars, hookVars, submits, nextId, calls, submitCalls, now, shuffled>>

\* catch: set({ isLoading: false }) and rethrow (generateQuiz and startAttempt alike).
StoreLoadFail(e) ==
    /\ isLoading' = FALSE
    /\ loader' = IdleLoader
    /\ UNCHANGED <<dbVars, currentAttempt, questions, responses, currentQuestionIndex,
                   timeRemaining, hookVars, submits, nextId, calls, submitCalls, now, shuffled>>

\* The generate_quiz RPC, after the Selector of the design: InsufficientQuestions when
\* fewer candidates than numQuestions match, else the first numQuestions of a shuffle.
GenerateQuizRpc(cfg) ==
    IF Cardinality(Matching(cfg)) < cfg.numQuestions
    THEN {[error |-> <<NotEnoughQuestions(Cardinality(Matching(cfg)), cfg.numQuestions)>>, question_ids |-> <<>>]}
    ELSE {[error |-> <<>>, question_ids |-> ids] : ids \in Selections(Matching(cfg), cfg.numQuestions)}

\* The rows .from('questions').select('*').in('id', ids) returns: the questions with
\* those ids, in an order the query does not fix.
QuestionsByIds(ids) == Perms(Range(ids))

\* The call, up to the first await (the generate_quiz RPC).
StoreGenerateQuiz(cfg) ==
    /\ loader.kind = "none"
    /\ isLoading' = TRUE
    /\ loader' = [IdleLoader EXCEPT !.kind = "store", !.pc = "rpc", !.config = cfg]
    /\ UNCHANGED <<dbVars, currentAttempt, questions, responses, currentQuestionIndex,
                   timeRemaining, hookVars, submits, nextId, calls, submitCalls, now, shuffled>>

\* The RPC returns: an error, or question ids and the attempt insert is issued.
StoreRpcReturn ==
    /\ loader.kind = "store" /\ loader.pc = "rpc"
    /\ \/ StoreLoadFail(BackendError)
       \/ \E r \in GenerateQuizRpc(loader.config) :
            IF r.error # <<>>
            THEN StoreLoadFail(r.error[1])
            ELSE /\ loader' = [loader EXCEPT !.pc = "insert", !.ids = r.question_ids]
                 /\ UNCHANGED <<dbVars, storeVars, hookVars, submits, nextId, calls, submitCalls, now, shuffled>>

\* The insert returns: an error, or the new row and the question fetch is issued.
StoreInsertReturn ==
    /\ loader.kind = "store" /\ loader.pc = "insert"
    /\ \/ StoreLoadFail(BackendError)
       \/ /\ Len(attempts) < MaxAttempts
          /\ LET row == NewAttemptRow(Len(attempts) + 1, loader.config, loader.ids) IN
                /\ attempts' = Append(attempts, row)
                /\ loader' = [loader EXCEPT !.pc = "fetch", !.row = <<row>>, !.attemptId = row.id]
          /\ UNCHANGED <<dbResponses, storeVars, hookVars, submits, nextId, calls, submitCalls, now, shuffled>>

\* The question fetch returns: an error, or the rows, and the session is set.
StoreFetchReturn ==
    /\ loader.kind = "store" /\ loader.pc = "fetch"
    /\ \/ StoreLoadFail(BackendError)
       \/ \E qs \in QuestionsByIds(loader.ids) :
            /\ currentAttempt' = loader.row
            /\ questions' = qs
            /\ responses' = <<>>
            /\ calls' = <<>>
            /\ currentQuestionIndex' = 0
            /\ timeRemaining' = TimeLimitOrZero(loader.config)
            /\ isLoading' = FALSE
            /\ loader' = IdleLoader
            /\ UNCHANGED <<dbVars, hookVars, submits, nextId, submitCalls, now, shuffled>>

(* ---------------------- useQuizStore.startAttempt ------------------------ *)
\* The call, up to the first await (the attempt select).
StartAttempt(attemptId) ==
    /\ loader.kind = "none"
    /\ isLoading' = TRUE
    /\ loader' = [IdleLoader EXCEPT !.kind = "start", !.pc = "select", !.attemptId = attemptId]
    /\ UNCHANGED <<dbVars, currentAttempt, questions, responses, currentQuestionIndex,
                   timeRemaining, hookVars, submits, nextId, calls, submitCalls, now, shuffled>>

\* The select returns: an error (.single() finds no row, or the backend fails), or
\* the row, and the question fetch is issued.
StartSelectReturn ==
    /\ loader.kind = "start" /\ loader.pc = "select"
    /\ \/ StoreLoadFail(BackendError)
       \/ /\ loader.attemptId \in DOMAIN attempts
          /\ loader' = [loader EXCEPT !.pc = "fetch", !.row = <<attempts[loader.attemptId]>>,
                                      !.ids = attempts[loader.attemptId].question_ids]
          /\ UNCHANGED <<dbVars, storeVars, hookVars, submits, nextId, calls, submitCalls, now, shuffled>>

\* The question fetch returns: an error, or the rows, and the session is set
\* (timeRemaining is not among the fields startAttempt sets).
StartFetchReturn ==
    /\ loader.kind = "start" /\ loader.pc = "fetch"
    /\ \/ StoreLoadFail(BackendError)
       \/ \E qs \in QuestionsByIds(loader.ids) :
            /\ currentAttempt' = loader.row
            /\ questions' = qs
            /\ responses' = <<>>
            /\ calls' = <<>>
            /\ currentQuestionIndex' = 0
            /\ isLoading' = FALSE
            /\ loader' = IdleLoader
            /\ UNCHANGED <<dbVars, timeRemaining, hookVars, submits, nextId, submitCalls, now, shuffled>>

(* ----------------------- useQuizStore.submitAnswer ----------------------- *)
TimeSpents == {1}

\* A lookup that finds every question id, in the session's list or not.
FindQuestionAnywhere(qs, questionId) == {questionId}

\* questions.find((q) => q.id === questionId): the id when the session holds it.
FindQuestion(qs, questionId) == {q \in Range(qs) : q = questionId}

IsCorrect(questionId, answer) == answer = Bank[questionId].correct_answer

\* The points granted whatever the answer.
PointsAwardedRegardless(questionId, answer) == Bank[questionId].points

PointsAwarded(questionId, answer) ==
    IF IsCorrect(questionId, answer) THEN Bank[questionId].points ELSE 0

\* The QuizResponse submitAnswer builds (timestamps and user_id left out).
NewResponse(id, attempt, questionId, answer, timeSpent, index) ==
    [id |-> id,
     attempt_id |-> attempt.id,
     question_id |-> questionId,
     user_answer |-> answer,
     is_correct |-> IsCorrect(questionId, answer),
     time_spent_seconds |-> timeSpent,
     points_awarded |-> PointsAwarded(questionId, answer),
     max_points |-> Bank[questionId].points,
     question_position |-> index + 1]

\* A ledger that keeps only the last answer.
MapSetAlone(m, key, value) == <<value>>

\* A ledger that appends every answer instead of replacing by key.
MapSetAppending(m, key, value) == Append(m, value)

\* Map.prototype.set on the responses map, kept in insertion order: an existing
\* key keeps its place and gets the new value, a new key goes last.
MapSet(m, key, value) ==
    IF \E i \in DOMAIN m : m[i].question_id = key
    THEN [i \in DOMAIN m |-> IF m[i].question_id = key THEN value ELSE m[i]]
    ELSE Append(m, value)

SubmitAnswer(questionId, answer, timeSpent) ==
    IF currentAttempt = <<>> \/ FindQuestion(questions, questionId) = {}
    THEN UNCHANGED vars
    ELSE /\ nextId < MaxAnswers
         /\ responses' = MapSet(responses, questionId,
                NewResponse(nextId + 1, currentAttempt[1], questionId, answer, timeSpent,
                            currentQuestionIndex))
         /\ nextId' = nextId + 1
         /\ calls' = Append(calls, [question_id |-> questionId, user_answer |-> answer])
         /\ UNCHANGED <<dbVars, currentAttempt, questions, currentQuestionIndex, timeRemaining,
                        isLoading, hookVars, loader, submits, submitCalls, now, shuffled>>

(* ------------- nextQuestion / previousQuestion / navigator --------------- *)
\* A nextQuestion that does not stop at the last question.
NextQuestionPastEnd ==
    /\ currentQuestionIndex' = currentQuestionIndex + 1
    /\ UNCHANGED <<dbVars, currentAttempt, questions, responses, timeRemaining, isLoading,
                   hookVars, loader, submits, nextId, calls, submitCalls, now, shuffled>>

NextQuestion ==
    /\ currentQuestionIndex' =
          IF currentQuestionIndex < Len(questions) - 1
          THEN currentQuestionIndex + 1 ELSE currentQuestionIndex
    /\ UNCHANGED <<dbVars, currentAttempt, questions, responses, timeRemaining, isLoading,
                   hookVars, loader, submits, nextId, calls, submitCalls, now, shuffled>>

PreviousQuestion ==
    /\ currentQuestionIndex' =
          IF currentQuestionIndex > 0 THEN currentQuestionIndex - 1 ELSE currentQuestionIndex
    /\ UNCHANGED <<dbVars, currentAttempt, questions, responses, timeRemaining, isLoading,
                   hookVars, loader, submits, nextId, calls, submitCalls, now, shuffled>>

\* TakeQuiz's numbered buttons: useQuizStore.setState({ currentQuestionIndex: idx }).
GoToQuestion(idx) ==
    /\ idx \in 0..(Len(questions) - 1)
    /\ currentQuestionIndex' = idx
    /\ UNCHANGED <<dbVars, currentAttempt, questions, responses, timeRemaining, isLoading,
                   hookVars, loader, submits, nextId, calls, submitCalls, now, shuffled>>

(* ------------------- TakeQuiz timer / setTimeRemaining ------------------- *)
\* One firing of the interval the timer effect sets while timeRemaining > 0, a
\* second (1000 ms) after it was set or last fired:
\* setTimeRemaining((t) => Math.max(t - 1, 0)).
Tick ==
    /\ timeRemaining > 0
    /\ timeRemaining' = Max(timeRemaining - 1, 0)
    /\ now' = now + 1
    /\ UNCHANGED <<dbVars, currentAttempt, questions, responses, currentQuestionIndex,
                   isLoading, hookVars, loader, submits, nextId, calls, submitCalls, shuffled>>

\* A second passes and no interval fires: the TakeQuiz page is not mounted, the
\* tab is suspended, or the countdown stands at 0.
SecondPasses ==
    /\ now < MaxClock
    /\ now' = now + 1
    /\ UNCHANGED <<dbVars, storeVars, hookVars, loader, submits, nextId, calls, submitCalls, shuffled>>

(* ------------------------ useQuizStore.submitQuiz ------------------------ *)
\* quiz_responses.insert(rows): one statement, so all rows or none. The table keeps
\* one row per id and per (attempt_id, question_id); a batch that collides is refused.
KeyConflict(table, rows) ==
    \E i \in DOMAIN rows, j \in DOMAIN table :
        \/ rows[i].id = table[j].id
        \/ /\ rows[i].attempt_id = table[j].attempt_id
           /\ rows[i].question_id = table[j].question_id

\* <<>> when the insert is refused, else <<the table after it>>.
InsertResponses(table, rows) ==
    IF KeyConflict(table, rows) THEN <<>> ELSE <<table \o rows>>

\* A finalize that writes whatever the stored status is.
FinalizeQuizAttemptUnguarded(row, correctAnswers, timeSpent) ==
    <<[row EXCEPT !.status = "completed",
                  !.correct_answers = correctAnswers,
                  !.time_spent_seconds = timeSpent,
                  !.finalizations = @ + 1]>>

\* The finalize_quiz_attempt RPC, after finalize of the design: it requires the
\* stored status to be in_progress, writes the aggregates and completes the attempt.
FinalizeQuizAttempt(row, correctAnswers, timeSpent) ==
    IF row.status # "in_progress" THEN <<>>
    ELSE <<[row EXCEPT !.status = "completed",
                       !.correct_answers = correctAnswers,
                       !.time_spent_seconds = timeSpent,
                       !.finalizations = @ + 1]>>

\* responsesArray.filter((r) => r.is_correct).length
CorrectAnswers(arr) == Cardinality({i \in DOMAIN arr : arr[i].is_correct})

\* responsesArray.reduce((sum, r) => sum + (r.time_spent_seconds || 0), 0)
RECURSIVE TotalTimeSpent(_)
TotalTimeSpent(arr) ==
    IF arr = <<>> THEN 0 ELSE arr[1].time_spent_seconds + TotalTimeSpent(Tail(arr))

\* The slot a new submitQuiz call runs in.
FreeSlot == CHOOSE s \in SubmitSlots :
                /\ ~InFlight(s)
                /\ \A t \in SubmitSlots : t < s => InFlight(t)

\* A catch that also empties the session ledger.
SubmitFailClearing(s) ==
    /\ isLoading' = FALSE
    /\ responses' = <<>>
    /\ submits' = [submits EXCEPT ![s] = IdleSubmit]
    /\ UNCHANGED <<dbVars, currentAttempt, questions, currentQuestionIndex,
                   timeRemaining, hookVars, loader, nextId, calls, submitCalls, now, shuffled>>

\* catch: set({ isLoading: false }) and rethrow.
SubmitFail(s) ==
    /\ isLoading' = FALSE
    /\ submits' = [submits EXCEPT ![s] = IdleSubmit]
    /\ UNCHANGED <<dbVars, currentAttempt, questions, responses, currentQuestionIndex,
                   timeRemaining, hookVars, loader, nextId, calls, submitCalls, now, shuffled>>

\* The call, up to the first await (the quiz_responses insert). Without a current
\* attempt it throws before anything is set.
SubmitQuiz ==
    IF currentAttempt = <<>>
    THEN UNCHANGED vars
    ELSE /\ submitCalls < MaxSubmits
         /\ \E s \in SubmitSlots : ~InFlight(s)
         /\ LET id == currentAttempt[1].id
                races == {t \in SubmitSlots : InFlight(t) /\ submits[t].attemptId = id}
            IN submits' = [t \in SubmitSlots |->
                    IF t = FreeSlot
                    THEN [pc |-> "insert", attemptId |-> id, responsesArray |-> responses,
                          overlapped |-> races # {}]
                    ELSE IF t \in races THEN [submits[t] EXCEPT !.overlapped = TRUE]
                    ELSE submits[t]]
         /\ isLoading' = TRUE
         /\ submitCalls' = submitCalls + 1
         /\ UNCHANGED <<dbVars, currentAttempt, questions, responses, currentQuestionIndex,
                        timeRemaining, hookVars, loader, nextId, calls, now, shuffled>>

\* The insert returns: an error, or the rows are stored and the finalize RPC is issued.
SubmitInsertReturn(s) ==
    /\ submits[s].pc = "insert"
    /\ \/ SubmitFail(s)
       \/ /\ InsertResponses(dbResponses, submits[s].responsesArray) # <<>>
          /\ dbResponses' = InsertResponses(dbResponses, submits[s].responsesArray)[1]
          /\ submits' = [submits EXCEPT ![s].pc = "finalize"]
          /\ UNCHANGED <<attempts, storeVars, hookVars, loader, nextId, calls, submitCalls, now, shuffled>>

\* The RPC returns: an error (the backend fails or refuses), or the attempt is finalized.
SubmitFinalizeReturn(s) ==
    /\ submits[s].pc = "finalize"
    /\ \/ SubmitFail(s)
       \/ LET id == submits[s].attemptId
              done == FinalizeQuizAttempt(attempts[id],
                          CorrectAnswers(submits[s].responsesArray),
                          TotalTimeSpent(submits[s].responsesArray))
          IN /\ done # <<>>
             /\ attempts' = [attempts EXCEPT ![id] = done[1]]
             /\ isLoading' = FALSE
             /\ submits' = [submits EXCEPT ![s] = IdleSubmit]
             /\ UNCHANGED <<dbResponses, currentAttempt, questions, responses,
                            currentQuestionIndex, timeRemaining, hookVars, loader, nextId, calls,
                            submitCalls, now, shuffled>>

(* ------------------------- QuizResults: basic stats ----------------------- *)
\* Math.round(a / b * 100) for integers a >= 0, b > 0 (halves round up).
RoundPercent(a, b) == (200 * a + b) \div (2 * b)

\* total = questions.length; correct = the responses with is_correct;
\* percentage = total ? Math.round((correct / total) * 100) : 0.
Percentage(qs, rs) ==
    IF Len(qs) # 0 THEN RoundPercent(CorrectAnswers(rs), Len(qs)) ELSE 0

(* --------------------------- specifications ------------------------------ *)
\* The pages that start a load (generateQuiz, startAttempt) and the page that
\* submits are different routes: a load starts while no submitQuiz is in flight,
\* and a submitQuiz while no load is.
NoSubmitInFlight == \A s \in SubmitSlots : ~InFlight(s)
NoLoadInFlight == loader.kind = "none"

\* TakeQuiz answers the question on display: onSelectOption / handleKeyDown call
\* submitAnswer(currentQuestion.id, option, elapsed).
AnswerCurrentQuestion(answer, timeSpent) ==
    /\ currentQuestionIndex + 1 \in DOMAIN questions
    /\ SubmitAnswer(questions[currentQuestionIndex + 1], answer, timeSpent)

\* The session as the pages drive it: a quiz generated by the hook (a generation
\* is started while fewer than MaxSessionAttempts attempts exist) or loaded with
\* startAttempt, answered, navigated, timed, submitted (twice at most), reset.
Next ==
    \/ /\ NoSubmitInFlight
       /\ Len(attempts) < MaxSessionAttempts
       /\ \E cfg \in SessionConfigs : HookGenerateQuiz(cfg)
    \/ HookQueryReturn
    \/ HookAuthReturn
    \/ HookInsertReturn
    \/ NoSubmitInFlight /\ \E id \in 1..MaxSessionAttempts : StartAttempt(id)
    \/ StartSelectReturn
    \/ StartFetchReturn
    \/ \E a \in Answers, t \in TimeSpents : AnswerCurrentQuestion(a, t)
    \/ NextQuestion
    \/ PreviousQuestion
    \/ \E idx \in 0..(MaxNumQuestions - 1) : GoToQuestion(idx)
    \/ Tick
    \/ NoLoadInFlight /\ SubmitQuiz
    \/ \E s \in SubmitSlots : SubmitInsertReturn(s)
    \/ \E s \in SubmitSlots : SubmitFinalizeReturn(s)
    \/ ResetQuiz

Spec == Init /\ [][Next]_vars

\* Quiz generation on every config, by the hook and by the store, and reloading.
GenNext ==
    \/ \E cfg \in Configs : HookGenerateQuiz(cfg)
    \/ HookQueryReturn
    \/ HookAuthReturn
    \/ HookInsertReturn
    \/ \E cfg \in Configs : StoreGenerateQuiz(cfg)
    \/ StoreRpcReturn
    \/ StoreInsertReturn
    \/ StoreFetchReturn
    \/ \E id \in 1..MaxAttempts : StartAttempt(id)
    \/ StartSelectReturn
    \/ StartFetchReturn
    \/ ResetQuiz

GenSpec == Init /\ [][GenNext]_vars

\* Several attempts in the one store: quizzes generated by the hook one after the
\* other, each loaded again with startAttempt, answered, timed, reset.
MultiNext ==
    \/ \E cfg \in SessionConfigs : HookGenerateQuiz(cfg)
    \/ HookQueryReturn
    \/ HookAuthReturn
    \/ HookInsertReturn
    \/ \E id \in 1..MaxAttempts : StartAttempt(id)
    \/ StartSelectReturn
    \/ StartFetchReturn
    \/ \E a \in Answers, t \in TimeSpents : AnswerCurrentQuestion(a, t)
    \/ Tick
    \/ SecondPasses
    \/ ResetQuiz

MultiSpec == Init /\ [][MultiNext]_vars

\* The ledger: quizzes generated by the hook or the store, or loaded again with
\* startAttempt,
\* submitAnswer called for any question id (on display or not, while a load is in
\* flight or not), navigation, reset.
LedgerNext ==
    \/ \E cfg \in SessionConfigs : HookGenerateQuiz(cfg)
    \/ HookQueryReturn
    \/ HookAuthReturn
    \/ HookInsertReturn
    \/ \E cfg \in SessionConfigs : StoreGenerateQuiz(cfg)
    \/ StoreRpcReturn
    \/ StoreInsertReturn
    \/ StoreFetchReturn
    \/ \E id \in 1..MaxAttempts : StartAttempt(id)
    \/ StartSelectReturn
    \/ StartFetchReturn
    \/ \E q \in QuestionIds, a \in Answers, t \in TimeSpents : SubmitAnswer(q, a, t)
    \/ NextQuestion
    \/ PreviousQuestion
    \/ \E idx \in 0..(MaxNumQuestions - 1) : GoToQuestion(idx)
    \/ ResetQuiz

LedgerSpec == Init /\ [][LedgerNext]_vars

\* The asynchronous operations alone, overlapping freely: every call that sets a
\* loading flag, and the returns of its backend calls.
LoadingNext ==
    \/ \E cfg \in SessionConfigs : HookGenerateQuiz(cfg)
    \/ HookQueryReturn
    \/ HookAuthReturn
    \/ HookInsertReturn
    \/ \E cfg \in SessionConfigs : StoreGenerateQuiz(cfg)
    \/ StoreRpcReturn
    \/ StoreInsertReturn
    \/ StoreFetchReturn
    \/ \E id \in 1..MaxAttempts : StartAttempt(id)
    \/ StartSelectReturn
    \/ StartFetchReturn
    \/ SubmitQuiz
    \/ \E s \in SubmitSlots : SubmitInsertReturn(s)
    \/ \E s \in SubmitSlots : SubmitFinalizeReturn(s)

\* Every backend call in flight returns (with a result or an error).
BackendCallsReturn ==
    /\ WF_vars(HookQueryReturn)
    /\ WF_vars(HookAuthReturn)
    /\ WF_vars(HookInsertReturn)
    /\ WF_vars(StoreRpcReturn)
    /\ WF_vars(StoreInsertReturn)
    /\ WF_vars(StoreFetchReturn)
    /\ WF_vars(StartSelectReturn)
    /\ WF_vars(StartFetchReturn)
    /\ \A s \in SubmitSlots : WF_vars(SubmitInsertReturn(s))
    /\ \A s \in SubmitSlots : WF_vars(SubmitFinalizeReturn(s))

LoadingSpec == Init /\ [][LoadingNext]_vars /\ BackendCallsReturn

\* One shuffle-and-slice of the hook, taken alone. The rows of a query: some
\* candidates, in the order the backend returned them, of which n are wanted, on
\* a page run by one of the engines.
QueryCandidates ==
    /\ shuffled = <<>>
    /\ \E D \in SUBSET QuestionIds, engine \in Engines :
          /\ Cardinality(D) \in 1..MaxShuffle
          /\ \E arr \in Perms(D), n \in 1..Cardinality(D) :
                shuffled' = <<[engine |-> engine, input |-> arr, n |-> n, done |-> FALSE,
                               selected |-> <<>>]>>
    /\ UNCHANGED <<dbVars, storeVars, hookVars, loader, submits, nextId, calls, submitCalls, now>>

\* The engine's sort under one string of comparator outcomes, and the first n ids.
ShuffleCandidates ==
    /\ shuffled # <<>>
    /\ ~shuffled[1].done
    /\ \E coins \in CoinStrings(Len(shuffled[1].input)) :
          shuffled' = <<[shuffled[1] EXCEPT
                           !.done = TRUE,
                           !.selected = ShuffleSlice(shuffled[1].engine, shuffled[1].input,
                                                     coins, shuffled[1].n)]>>
    /\ UNCHANGED <<dbVars, storeVars, hookVars, loader, submits, nextId, calls, submitCalls, now>>

ShuffleNext ==
    \/ QueryCandidates
    \/ ShuffleCandidates

ShuffleSpec == Init /\ [][ShuffleNext]_vars

(* ------------------------- properties: generation ------------------------ *)
\* What a claim about a selection reads from the questions table, written out
\* against the table itself.
ValidConfig(cfg) == cfg.numQuestions > 0 /\ cfg.categories # {}

ActiveMatches(cfg) ==
    {q \in QuestionIds :
        /\ Bank[q].is_active = TRUE
        /\ \E c \in cfg.categories : c = Bank[q].category
        /\ (cfg.difficulty = "mixed" \/ Bank[q].difficulty = cfg.difficulty)}

GoodSelection(ids, cfg) ==
    /\ Len(ids) = cfg.numQuestions
    /\ \A i, j \in DOMAIN ids : i # j => ids[i] # ids[j]
    /\ \A i \in DOMAIN ids : ids[i] \in ActiveMatches(cfg)

\* C1: for a valid config, the question ids of a generated quiz (the hook's
\* shuffled slice, and every attempt persisted from it) are exactly numQuestions
\* pairwise distinct ids of active questions in the config's categories that pass
\* the difficulty filter ('mixed' passes every difficulty).
C1_SelectionMeetsConfig ==
    /\ \A i \in DOMAIN attempts :
          ValidConfig(attempts[i].config) =>
             GoodSelection(attempts[i].question_ids, attempts[i].config)
    /\ (loader.kind = "hook" /\ loader.pc \in {"auth", "insert"}) =>
          GoodSelection(loader.ids, loader.config)
    /\ (currentAttempt # <<>> /\ ValidConfig(currentAttempt[1].config)) =>
          GoodSelection(currentAttempt[1].question_ids, currentAttempt[1].config)

\* A two-question quiz has been generated from two matching active questions and
\* is the current attempt.
C1_Witness ==
    /\ attempts # <<>>
    /\ attempts[1].config.numQuestions = 2
    /\ Cardinality(ActiveMatches(attempts[1].config)) >= 2
    /\ currentAttempt = <<attempts[1]>>
    /\ questions = attempts[1].question_ids
    /\ hookLoading = FALSE /\ hookError = <<>>

\* C2: when the hook's candidate query finds fewer questions than numQuestions,
\* the call ends there in failure: the error is InsufficientQuestions with
\* available = the number found and required = numQuestions (or the query's own
\* failure), no attempt is inserted, and currentAttempt, questions and responses
\* of the session store are left as they were.
C2_InsufficientQuestionsFails ==
    [][ ( /\ loader.kind = "hook" /\ loader.pc = "query"
          /\ loader' # loader
          /\ Cardinality(ActiveMatches(loader.config)) < loader.config.numQuestions )
        => /\ loader'.kind = "none"
           /\ hookError' \in
                 { <<[kind |-> "PersistenceFailure"]>>,
                   <<[kind |-> "InsufficientQuestions",
                      available |-> Cardinality(ActiveMatches(loader.config)),
                      required |-> loader.config.numQuestions]>> }
           /\ hookLoading' = FALSE
           /\ attempts' = attempts /\ dbResponses' = dbResponses
           /\ currentAttempt' = currentAttempt /\ questions' = questions
           /\ responses' = responses
      ]_vars

\* The hook has reported one question found where two were required, and nothing
\* was persisted.
C2_Witness ==
    /\ hookError # <<>>
    /\ hookError[1].kind = "InsufficientQuestions"
    /\ hookError[1].available = 1
    /\ hookError[1].required = 2
    /\ attempts = <<>>
    /\ currentAttempt = <<>>

\* C3: no attempt is ever persisted from a config with numQuestions <= 0 or with
\* no category, whichever call created it.
C3_InvalidConfigNeverPersisted ==
    \A i \in DOMAIN attempts :
        /\ attempts[i].config.numQuestions > 0
        /\ attempts[i].config.categories # {}

(* --------------------------- properties: ledger -------------------------- *)
\* The last submitAnswer call recorded for question q on the current ledger.
LastCallFor(q) ==
    calls[CHOOSE i \in DOMAIN calls :
            /\ calls[i].question_id = q
            /\ \A j \in DOMAIN calls : calls[j].question_id = q => j <= i]

\* C4: after any sequence of submitAnswer calls the session ledger holds at most
\* one response per question, exactly the questions answered have one, and the
\* stored response carries the user_answer, is_correct and points_awarded of the
\* last call made for its question.
C4_OneResponsePerQuestionLatestWins ==
    /\ \A i, j \in DOMAIN responses :
          i # j => responses[i].question_id # responses[j].question_id
    /\ {responses[i].question_id : i \in DOMAIN responses}
          = {calls[i].question_id : i \in DOMAIN calls}
    /\ \A i \in DOMAIN responses :
          LET r == responses[i]
              c == LastCallFor(r.question_id)
              right == c.user_answer = Bank[r.question_id].correct_answer
          IN /\ r.user_answer = c.user_answer
             /\ r.is_correct = right
             /\ r.points_awarded = IF right THEN Bank[r.question_id].points ELSE 0

\* One question was answered twice with different answers and the ledger holds a
\* single response.
C4_Witness ==
    /\ Len(calls) = 2
    /\ calls[1].question_id = calls[2].question_id
    /\ calls[1].user_answer # calls[2].user_answer
    /\ Len(responses) = 1

\* C5: a response is recorded only for an attempt whose status is in_progress and
\* for a question among the attempt's question ids. (A step that issues a response
\* id is a submitAnswer call that recorded a response.)
C5_AnswerRequiresActiveAttempt ==
    [][ nextId' = nextId + 1 =>
          /\ currentAttempt # <<>>
          /\ currentAttempt[1].status = "in_progress"
          /\ \A i \in DOMAIN responses' :
                responses'[i].id = nextId' =>
                   \E k \in DOMAIN currentAttempt[1].question_ids :
                       currentAttempt[1].question_ids[k] = responses'[i].question_id
      ]_vars

\* Every response the engine holds: in the session ledger, in a submitQuiz call's
\* array, or persisted.
AllResponses ==
    {responses[i] : i \in DOMAIN responses}
      \cup {dbResponses[i] : i \in DOMAIN dbResponses}
      \cup UNION {{submits[s].responsesArray[i] : i \in DOMAIN submits[s].responsesArray} :
                    s \in SubmitSlots}

\* C6: for every recorded response, is_correct holds exactly when user_answer is
\* the question's correct_answer, points_awarded is the question's points when
\* correct and 0 otherwise, max_points is the question's points, and so
\* 0 <= points_awarded <= max_points.
C6_ScoringRule ==
    \A r \in AllResponses :
        /\ r.is_correct = (r.user_answer = Bank[r.question_id].correct_answer)
        /\ r.points_awarded = IF r.is_correct THEN Bank[r.question_id].points ELSE 0
        /\ r.max_points = Bank[r.question_id].points
        /\ 0 <= r.points_awarded /\ r.points_awarded <= r.max_points

\* The ledger holds a correct and an incorrect response, and a persisted one exists.
C6_Witness ==
    /\ \E i, j \in DOMAIN responses :
          responses[i].is_correct /\ ~responses[j].is_correct
    /\ dbResponses # <<>>

(* ------------------------- properties: lifecycle ------------------------- *)
\* The persisted responses of attempt id.
PersistedFor(id) == {dbResponses[i] : i \in {j \in DOMAIN dbResponses : dbResponses[j].attempt_id = id}}

\* C7: once the stored status of an attempt is not in_progress, no step changes
\* its record or its persisted responses, and no submitAnswer call changes the
\* session ledger while it is the current attempt.
C7_TerminalStateImmutable ==
    [][ \A id \in DOMAIN attempts :
          attempts[id].status # "in_progress" =>
             /\ attempts'[id] = attempts[id]
             /\ PersistedFor(id)' = PersistedFor(id)
             /\ (currentAttempt # <<>> /\ currentAttempt[1].id = id /\ nextId' # nextId)
                   => responses' = responses
      ]_vars

\* C8: whenever no submitQuiz call is in flight for an attempt, either it is
\* finalized, or it is in_progress with none of its responses persisted.
C8_FinalizeAtomic ==
    \A id \in DOMAIN attempts :
        (\A s \in SubmitSlots : ~(InFlight(s) /\ submits[s].attemptId = id)) =>
            \/ attempts[id].status # "in_progress"
            \/ PersistedFor(id) = {}

\* C9: of two submitQuiz calls in flight at once for one attempt, only the one
\* that performs the terminal transition writes: a call that has persisted
\* responses finds the attempt still in_progress, and the other call has
\* persisted none.
C9_ConcurrentFinalizeSerialized ==
    \A s \in SubmitSlots :
        ( /\ submits[s].overlapped
          /\ submits[s].pc = "finalize"
          /\ submits[s].responsesArray # <<>> )
        => /\ attempts[submits[s].attemptId].status = "in_progress"
           /\ \A t \in SubmitSlots \ {s} :
                 ~( /\ submits[t].pc = "finalize"
                    /\ submits[t].attemptId = submits[s].attemptId
                    /\ submits[t].responsesArray # <<>> )

(* --------------------------- properties: timing -------------------------- *)
\* A step the system takes without the learner: a timer tick or the return of a
\* backend call in flight.
SystemStep ==
    \/ Tick
    \/ HookQueryReturn \/ HookAuthReturn \/ HookInsertReturn
    \/ StartSelectReturn \/ StartFetchReturn
    \/ \E s \in SubmitSlots : SubmitInsertReturn(s) \/ SubmitFinalizeReturn(s)

\* C10: when the countdown of a time-limited attempt that is still in_progress,
\* and that the learner has not submitted, stands at zero, the system still has a
\* step of its own to take (the finalize the Time Governor triggers, or its
\* return): it does not come to rest with the attempt in_progress.
C10_TimeoutFinalizes ==
    ( /\ currentAttempt # <<>>
      /\ currentAttempt[1].config.timeLimit > 0
      /\ attempts[currentAttempt[1].id].status = "in_progress"
      /\ timeRemaining = 0
      /\ submitCalls = 0 )
    => ENABLED SystemStep

(* --------------------------- properties: status -------------------------- *)
Terminal == {"completed", "abandoned", "expired"}

\* C11: the stored status of an attempt only ever changes from in_progress to a
\* terminal status and never changes afterwards; completed_at (whose writes the
\* row counts in finalizations) is written exactly once, in the step that takes
\* the attempt out of in_progress; a new row starts in_progress, never finalized.
C11_StatusMonotonic ==
    [][ /\ \A id \in DOMAIN attempts :
              /\ id \in DOMAIN attempts'
              /\ attempts'[id].status # attempts[id].status =>
                    /\ attempts[id].status = "in_progress"
                    /\ attempts'[id].status \in Terminal
                    /\ attempts'[id].finalizations = attempts[id].finalizations + 1
              /\ attempts'[id].finalizations # attempts[id].finalizations =>
                    /\ attempts[id].status = "in_progress"
                    /\ attempts'[id].status \in Terminal
                    /\ attempts'[id].finalizations = 1
        /\ \A id \in DOMAIN attempts' \ DOMAIN attempts :
              /\ attempts'[id].status = "in_progress"
              /\ attempts'[id].finalizations = 0
      ]_vars

\* Two submitQuiz calls were made on an attempt, both have ended, and the attempt
\* is completed with completed_at written once.
C11_Witness ==
    /\ attempts # <<>>
    /\ attempts[1].status = "completed"
    /\ attempts[1].finalizations = 1
    /\ submitCalls = 2
    /\ \A s \in SubmitSlots : ~InFlight(s)

\* C12: a submitQuiz call that runs alone, start to end, on an attempt still
\* in_progress (the first call, or a retry after a call whose status flip failed)
\* has its response writes accepted by a working store, so it can go on to
\* finalize; and no response of an attempt is persisted twice.
C12_PartialFailureRetryable ==
    /\ \A s \in SubmitSlots :
          ( /\ submits[s].pc = "insert"
            /\ ~submits[s].overlapped
            /\ \A t \in SubmitSlots \ {s} : ~InFlight(t)
            /\ attempts[submits[s].attemptId].status = "in_progress" )
          => InsertResponses(dbResponses, submits[s].responsesArray) # <<>>
    /\ \A i, j \in DOMAIN dbResponses :
          ( /\ i # j
            /\ dbResponses[i].attempt_id = dbResponses[j].attempt_id )
          => dbResponses[i].question_id # dbResponses[j].question_id

(* --------------------------- properties: score --------------------------- *)
RECURSIVE SumAwarded(_)
SumAwarded(arr) == IF arr = <<>> THEN 0 ELSE arr[1].points_awarded + SumAwarded(Tail(arr))

RECURSIVE SumMax(_)
SumMax(arr) == IF arr = <<>> THEN 0 ELSE arr[1].max_points + SumMax(Tail(arr))

\* round(100 * sum(pointsAwarded) / sum(maxPoints), 2), in hundredths of a point,
\* and 0 when sum(maxPoints) is 0.
ScoreHundredths(arr) ==
    IF SumMax(arr) > 0
    THEN (2 * 10000 * SumAwarded(arr) + SumMax(arr)) \div (2 * SumMax(arr))
    ELSE 0

\* The stored responses of attempt id, in the order they were stored.
StoredResponses(id) == SelectSeq(dbResponses, LAMBDA r : r.attempt_id = id)

\* C13: once the current attempt is completed and the session ledger is what was
\* stored for it, the score shown to the learner (the percentage of QuizResults)
\* is round(100 * sum(points_awarded) / sum(max_points), 2) over the stored
\* responses, and 0 when sum(max_points) is 0.
C13_ScoreFormula ==
    ( /\ currentAttempt # <<>>
      /\ ~isLoading
      /\ attempts[currentAttempt[1].id].status = "completed"
      /\ responses = StoredResponses(currentAttempt[1].id) )
    => 100 * Percentage(questions, responses) = ScoreHundredths(StoredResponses(currentAttempt[1].id))

\* C14: in the step that finalizes an attempt, the correct_answers written is the
\* number of the attempt's stored responses with is_correct and the
\* time_spent_seconds written is the sum of their time_spent_seconds; the step
\* changes no stored response.
C14_FinalizeIsFold ==
    [][ \A id \in DOMAIN attempts :
          (attempts[id].status = "in_progress" /\ attempts'[id].status # "in_progress") =>
             /\ attempts'[id].correct_answers = CorrectAnswers(StoredResponses(id))
             /\ attempts'[id].time_spent_seconds = TotalTimeSpent(StoredResponses(id))
             /\ dbResponses' = dbResponses
      ]_vars

C16_NoLimitNoCountdown ==
    ( /\ currentAttempt # <<>>
      /\ currentAttempt[1].config.timeLimit = 0 )
    => /\ timeRemaining = 0
       /\ ~ENABLED Tick

(* ------------------------ properties: remaining time --------------------- *)
\* max(0, timeLimit - (now - startedAt)) for an attempt row.
Remaining(attempt) == Max(0, attempt.config.timeLimit - (now - attempt.started_at))

\* C17: while the current attempt is in progress and has a time limit, the
\* remaining time the session holds is max(0, timeLimit - (now - started_at)),
\* however many seconds passed without a countdown tick and whether the attempt
\* was generated or loaded again with startAttempt.
C17_RemainingFromTrustedClock ==
    ( /\ currentAttempt # <<>>
      /\ currentAttempt[1].config.timeLimit > 0
      /\ attempts[currentAttempt[1].id].status = "in_progress" )
    => timeRemaining = Remaining(currentAttempt[1])

(* ------------------------ properties: failed calls ----------------------- *)
\* C18: when a generateQuiz call (the hook's or the store's) ends, either it has
\* succeeded and the attempt it persisted is the session's current attempt, or it
\* has failed, and then it has persisted no attempt and the session's
\* currentAttempt, questions and responses are as they were.
C18_FailedGenerateLeavesNoTrace ==
    [][ (loader.kind \in {"hook", "store"} /\ loader'.kind = "none") =>
          \/ /\ attempts' # <<>>
             /\ currentAttempt' = <<attempts'[Len(attempts')]>>
             /\ \/ Len(attempts') = Len(attempts) + 1
                \/ loader.row = currentAttempt'
          \/ /\ attempts' = attempts
             /\ loader.row = <<>>
             /\ currentAttempt' = currentAttempt
             /\ questions' = questions
             /\ responses' = responses
      ]_vars

(* ------------------------- properties: sessions -------------------------- *)
\* C19: a step that makes another attempt the current one while the first is
\* still in progress keeps every response recorded for the first attempt (held
\* by the session or stored); and every response the session holds belongs to
\* the current attempt.
C19_SessionsIsolated ==
    /\ [](\A i \in DOMAIN responses :
             /\ currentAttempt # <<>>
             /\ responses[i].attempt_id = currentAttempt[1].id)
    /\ [][ ( /\ currentAttempt # <<>>
             /\ attempts[currentAttempt[1].id].status = "in_progress"
             /\ currentAttempt' # <<>>
             /\ currentAttempt'[1].id # currentAttempt[1].id )
           => \A i \in DOMAIN responses :
                 \/ \E j \in DOMAIN responses' : responses'[j] = responses[i]
                 \/ \E j \in DOMAIN dbResponses' : dbResponses'[j] = responses[i]
         ]_vars

(* --------------------------- properties: shuffle ------------------------- *)
\* The strings of comparator outcomes under which the shuffle of arr, cut to n,
\* gives sel.
Ways(engine, arr, n, sel) ==
    {coins \in CoinStrings(Len(arr)) : ShuffleSlice(engine, arr, coins, n) = sel}

\* C20: the shuffle-and-slice gives every ordered selection of n of the candidates
\* with the same probability: each is the result under the same number of the
\* equally likely strings of comparator outcomes. (It always gives one of them.)
C20_ShuffleUniform ==
    \A i \in DOMAIN shuffled :
        LET s == shuffled[i]
            sels == Selections(Range(s.input), s.n)
        IN s.done =>
              /\ s.selected \in sels
              /\ \A sel \in sels :
                    Cardinality(Ways(s.engine, s.input, s.n, sel)) * Cardinality(sels)
                       = Cardinality(CoinStrings(Len(s.input)))

(* ----------------------- properties: session shape ----------------------- *)
\* C21: the session presents the questions in the order of the current attempt's
\* question_ids: the i-th question of the session's list has id question_ids[i],
\* whichever call loaded the session.
C21_PresentationOrderFixed ==
    currentAttempt # <<>> => questions = currentAttempt[1].question_ids

\* C22: the question_position of every response in the session ledger is the
\* 1-based index of its question_id in the current attempt's question_ids.
C22_PositionIsIndexInQuestionIds ==
    \A i \in DOMAIN responses :
        /\ currentAttempt # <<>>
        /\ responses[i].question_position \in DOMAIN currentAttempt[1].question_ids
        /\ currentAttempt[1].question_ids[responses[i].question_position]
              = responses[i].question_id

(* --------------------- properties: ledger and questions ------------------ *)
RECURSIVE SumPoints(_)
SumPoints(ids) == IF ids = <<>> THEN 0 ELSE Bank[ids[1]].points + SumPoints(Tail(ids))

\* The question ids of the current attempt (none without one).
SelectedIds == IF currentAttempt = <<>> THEN <<>> ELSE currentAttempt[1].question_ids

\* C23: the sum of max_points over the session ledger is at most the sum of points
\* over the current attempt's selected questions, and equals it once every
\* selected question has a response.
C23_LedgerMaxPointsBounded ==
    /\ SumMax(responses) <= SumPoints(SelectedIds)
    /\ (\A k \in DOMAIN SelectedIds :
           \E i \in DOMAIN responses : responses[i].question_id = SelectedIds[k])
       => SumMax(responses) = SumPoints(SelectedIds)

\* Both questions of a two-question attempt (10 and 20 points) have a response.
C23_Witness ==
    /\ Len(SelectedIds) = 2
    /\ Len(responses) = 2
    /\ SumMax(responses) = 30

\* The ledger with the response of a submitAnswer(q, a, t) call recorded under
\* response id rid.
Recorded(m, rid, q, a, t) ==
    MapSet(m, q, NewResponse(rid, currentAttempt[1], q, a, t, currentQuestionIndex))

\* C24: a submitAnswer call that records a response for question q changes the
\* ledger entry of q only: every response stored for another question stays, no
\* other key appears, and currentAttempt, questions, currentQuestionIndex and
\* timeRemaining are unchanged; and recording answers to two different questions
\* gives the same ledger entries in either order.
C24_UpsertsIndependentPerKey ==
    /\ [][ nextId' = nextId + 1 =>
             \E q \in QuestionIds :
                /\ \E j \in DOMAIN responses' :
                      responses'[j].question_id = q /\ responses'[j].id = nextId'
                /\ \A i \in DOMAIN responses :
                      responses[i].question_id # q =>
                         \E j \in DOMAIN responses' : responses'[j] = responses[i]
                /\ {responses'[j].question_id : j \in DOMAIN responses'}
                      = {responses[i].question_id : i \in DOMAIN responses} \cup {q}
                /\ Len(responses') = Cardinality({responses'[j].question_id : j \in DOMAIN responses'})
                /\ currentAttempt' = currentAttempt
                /\ questions' = questions
                /\ currentQuestionIndex' = currentQuestionIndex
                /\ timeRemaining' = timeRemaining
         ]_vars
    /\ [](currentAttempt # <<>> =>
             \A q1, q2 \in Range(questions), a1, a2 \in Answers :
                q1 # q2 =>
                   Range(Recorded(Recorded(responses, nextId + 1, q1, a1, 1), nextId + 2, q2, a2, 1))
                      = Range(Recorded(Recorded(responses, nextId + 2, q2, a2, 1), nextId + 1, q1, a1, 1)))

\* Two different questions of the attempt have been answered, one call each.
C24_Witness ==
    /\ Len(calls) = 2
    /\ Len(responses) = 2
    /\ responses[1].question_id # responses[2].question_id
    /\ currentAttempt # <<>>

(* --------------------- properties: submit and session -------------------- *)
\* C25: in the step in which a submitQuiz call completes the current attempt, the
\* responses persisted for the attempt are the responses of the session ledger.
C25_PersistedEqualsLedgerAtCompletion ==
    [][ \A id \in DOMAIN attempts :
          ( /\ attempts[id].status = "in_progress"
            /\ attempts'[id].status = "completed"
            /\ currentAttempt' # <<>>
            /\ currentAttempt'[1].id = id )
          => PersistedFor(id)' = Range(responses')
      ]_vars

\* C26: every response of the session ledger belongs to the current attempt: there
\* is a current attempt, the response's attempt_id is its id and its question is
\* in the session's question list (so without a current attempt the ledger is
\* empty); and a submitAnswer call stores its response under the question id it
\* was called with.
C26_LedgerBelongsToCurrentAttempt ==
    /\ [](\A i \in DOMAIN responses :
             /\ currentAttempt # <<>>
             /\ responses[i].attempt_id = currentAttempt[1].id
             /\ \E k \in DOMAIN questions : questions[k] = responses[i].question_id)
    /\ [][ nextId' = nextId + 1 =>
             \A j \in DOMAIN responses' :
                responses'[j].id = nextId' =>
                   responses'[j].question_id = calls'[Len(calls')].question_id
         ]_vars

\* A response is held for the second attempt while another load is in flight.
C26_Witness ==
    /\ currentAttempt # <<>>
    /\ currentAttempt[1].id = 2
    /\ responses # <<>>
    /\ loader.kind # "none"

(* ------------------------- properties: countdown ------------------------- *)
\* C27: timeRemaining is at least 0 and at most the current attempt's
\* config.timeLimit (0 without a current attempt); and while the current attempt
\* stays the same a step leaves timeRemaining as it is or lowers it by exactly 1.
C27_TimeRemainingBounded ==
    /\ [](/\ 0 <= timeRemaining
          /\ timeRemaining <= (IF currentAttempt = <<>> THEN 0
                               ELSE currentAttempt[1].config.timeLimit))
    /\ [][ currentAttempt' = currentAttempt =>
              \/ timeRemaining' = timeRemaining
              \/ timeRemaining' = timeRemaining - 1
         ]_vars

(* --------------------------- properties: index --------------------------- *)
\* C28: currentQuestionIndex is a position of the question list (0 when the list
\* is empty); nextQuestion at the last question and previousQuestion at the first
\* cannot change it; and a step that changes the current attempt or the question
\* list sets it to 0.
C28_IndexValid ==
    /\ [](/\ 0 <= currentQuestionIndex
          /\ currentQuestionIndex < Max(Len(questions), 1)
          /\ currentQuestionIndex >= Len(questions) - 1 =>
                ~ENABLED (NextQuestion /\ currentQuestionIndex' # currentQuestionIndex)
          /\ currentQuestionIndex = 0 =>
                ~ENABLED (PreviousQuestion /\ currentQuestionIndex' # currentQuestionIndex))
    /\ [][ (questions' # questions \/ currentAttempt' # currentAttempt)
              => currentQuestionIndex' = 0
         ]_vars

\* The last of two questions is on display.
C28_Witness ==
    /\ Len(questions) = 2
    /\ currentQuestionIndex = 1

(* ---------------------- properties: submitQuiz frame --------------------- *)
\* C29: a step of a submitQuiz call (its start, the return of its insert, the
\* return of its RPC, on success or failure) leaves currentAttempt, questions,
\* responses, currentQuestionIndex and timeRemaining unchanged; and without a
\* current attempt a submitQuiz call changes neither isLoading nor the tables nor
\* the calls in flight.
C29_SubmitQuizFrame ==
    /\ [][ (submits' # submits \/ submitCalls' # submitCalls) =>
              /\ currentAttempt' = currentAttempt
              /\ questions' = questions
              /\ responses' = responses
              /\ currentQuestionIndex' = currentQuestionIndex
              /\ timeRemaining' = timeRemaining
         ]_vars
    /\ [](currentAttempt = <<>> =>
             ~ENABLED (SubmitQuiz /\ (isLoading' # isLoading \/ attempts' # attempts
                                      \/ dbResponses' # dbResponses \/ submits' # submits)))

\* Two submitQuiz calls have ended, one of them having completed the attempt, and
\* the answered session is still in the store.
C29_Witness ==
    /\ attempts # <<>>
    /\ attempts[1].status = "completed"
    /\ submitCalls = 2
    /\ \A s \in SubmitSlots : ~InFlight(s)
    /\ currentAttempt # <<>>
    /\ Len(responses) = 2
    /\ ~isLoading

(* -------------------------- properties: loading -------------------------- *)
\* C30: provided the backend calls return, a loading flag that is set is
\* eventually cleared: the store's isLoading (generateQuiz, startAttempt,
\* submitQuiz) and the hook's isLoading, on success and on every failure.
C30_LoadingEventuallyCleared ==
    /\ isLoading ~> ~isLoading
    /\ hookLoading ~> ~hookLoading

\* A submitQuiz call awaits its RPC while the hook awaits its insert: both flags
\* are set.
C30_Witness ==
    /\ isLoading
    /\ hookLoading
    /\ \E s \in SubmitSlots : submits[s].pc = "finalize"
    /\ loader.kind = "hook" /\ loader.pc = "insert"

====
